---- MODULE Spec2Model ----
(***************************************************************************)
(* State-machine model of arpc's method dispatcher                         *)
(* (src/arpc/dispatcher.py): the Dispatcher objects with their method_map  *)
(* and subdispatchers dictionaries, the registration calls add_method,     *)
(* add_subdispatch and register_instance, name resolution get_method, and  *)
(* the coroutine dispatch with its single suspension point (the awaited    *)
(* handler).                                                               *)
(*                                                                         *)
(* Strings are sequences of one-character strings.  A Python dict is a     *)
(* function (method_map) or, where the code iterates it in insertion       *)
(* order, a sequence of items (subdispatchers).  A call that raises is     *)
(* recorded by the kind of the exception it raises.                        *)
(***************************************************************************)
EXTENDS Integers, Sequences, FiniteSets, TLC

----------------------------------------------------------------------------
(* Bounds of the model *)

\* longest method name a request may carry
MaxNameLen == 2
\* Dispatcher objects register_instance may create on top of the held ones
MaxFresh == 1
\* successful registrations (entries plus attachments) in the tree specification
MaxTreeOps == 4

\* the alphabet of names and prefixes
Chars == {"a", "b"}
\* the Dispatcher objects the application constructed and holds a reference to
Held == {1, 2, 3}

Strings(n) == UNION {[1..k -> Chars] : k \in 0..n}
\* the method names requests are drawn from
Names == Strings(MaxNameLen)
\* the prefixes add_subdispatch and register_instance are called with
Prefixes == {<<>>, <<"a">>}
\* Python's None where a string is expected
None == <<"None">>

----------------------------------------------------------------------------
(* Python string primitives *)

\* str.startswith
startswith(name, prefix) ==
    /\ Len(prefix) <= Len(name)
    /\ \A i \in 1..Len(prefix) : name[i] = prefix[i]

\* the recursive call made with the whole name, the prefix not cut off
strip_nothing(name, prefix) == name

\* name[len(prefix):]
strip(name, prefix) == SubSeq(name, Len(prefix) + 1, Len(name))

----------------------------------------------------------------------------
(* Handlers: the callables the application registers *)

\* every handler is a coroutine function but "s", a plain def
Handlers == {"b", "ab", "s"}

\* f.__name__
FuncName(f) ==
    CASE f = "b" -> <<"b">>
      [] f = "ab" -> <<"a", "b">>
      [] f = "s" -> <<"b">>

\* MethodParams = namedtuple('MethodParams', ('method', 'froward_request'))
MethodParams(f, transfer_request) ==
    [method |-> f, froward_request |-> transfer_request]

----------------------------------------------------------------------------
(* State *)

VARIABLES
    method_map,      \* method_map[d]: Dispatcher d's dict name -> MethodParams
    subdispatchers,  \* subdispatchers[d]: d's dict prefix -> list of Dispatchers,
                     \* as the sequence of its items in insertion order
    ret,             \* the exception the last registration call raised, if any
    added,           \* history: the add_method calls that returned normally
    calls            \* the dispatch coroutines, by slot

vars == <<method_map, subdispatchers, ret, added, calls>>

\* the Dispatcher objects that exist
Regs == 1..Len(method_map)

\* successful registrations so far: entries plus attachments
RECURSIVE SumLens(_, _)
SumLens(items, i) ==
    IF i > Len(items) THEN 0 ELSE Len(items[i].subs) + SumLens(items, i + 1)

RECURSIVE TreeSizeFrom(_, _, _)
TreeSizeFrom(mm, sds, d) ==
    IF d > Len(mm) THEN 0
    ELSE Cardinality(DOMAIN mm[d]) + SumLens(sds[d], 1) + TreeSizeFrom(mm, sds, d + 1)

TreeSize == TreeSizeFrom(method_map, subdispatchers, 1)

----------------------------------------------------------------------------
(* get_method: name resolution *)

Found(d, name, entry) == [kind |-> "ok", owner |-> d, key |-> name, entry |-> entry]
KeyError == [kind |-> "KeyError"]
RecursionError == [kind |-> "RecursionError"]

\* get_method(mm, sds, d, name, stack): the call d.get_method(name) made while the
\* calls in stack are active.  A call that is already active can only repeat
\* itself (the function reads nothing but the registry), so Python's recursion
\* limit ends it with RecursionError, which no except clause of get_method
\* catches.  scan is the double loop of lines 149-155 at prefix item i, child j.
RECURSIVE get_method(_, _, _, _, _)
RECURSIVE scan(_, _, _, _, _, _, _)

\* get_method with the direct lookup of lines 146-147 after the loop
get_method_children_first(mm, sds, d, name, stack) ==
    IF <<d, name>> \in stack THEN RecursionError
    ELSE LET r == scan(mm, sds, d, name, 1, 1, stack \cup {<<d, name>>})
         IN  IF r.kind = "KeyError" /\ name \in DOMAIN mm[d]
             THEN Found(d, name, mm[d][name])
             ELSE r

\* the loop without the try/except of lines 152-155: the first child's
\* KeyError ends the search
scan_uncaught(mm, sds, d, name, i, j, stack) ==
    IF i > Len(sds[d]) THEN KeyError
    ELSE IF ~startswith(name, sds[d][i].prefix) \/ j > Len(sds[d][i].subs)
    THEN scan(mm, sds, d, name, i + 1, 1, stack)
    ELSE get_method(mm, sds, sds[d][i].subs[j], strip(name, sds[d][i].prefix), stack)

\* the loop taking the prefixes last-added first
scan_last_prefix_first(mm, sds, d, name, i, j, stack) ==
    IF i > Len(sds[d]) THEN KeyError
    ELSE LET item == sds[d][Len(sds[d]) + 1 - i]
         IN  IF ~startswith(name, item.prefix) \/ j > Len(item.subs)
             THEN scan(mm, sds, d, name, i + 1, 1, stack)
             ELSE LET r == get_method(mm, sds, item.subs[j],
                                      strip(name, item.prefix), stack)
                  IN  IF r.kind = "KeyError"
                      THEN scan(mm, sds, d, name, i, j + 1, stack)
                      ELSE r

\* the loop ending at the first prefix that matches: once its children have
\* failed, no later prefix is tried
scan_first_prefix_only(mm, sds, d, name, i, j, stack) ==
    IF i > Len(sds[d]) THEN KeyError
    ELSE IF ~startswith(name, sds[d][i].prefix)
    THEN scan(mm, sds, d, name, i + 1, 1, stack)
    ELSE IF j > Len(sds[d][i].subs) THEN KeyError
    ELSE LET r == get_method(mm, sds, sds[d][i].subs[j],
                             strip(name, sds[d][i].prefix), stack)
         IN  IF r.kind = "KeyError"
             THEN scan(mm, sds, d, name, i, j + 1, stack)
             ELSE r

\* get_method keeping track of the calls in progress: a call that comes back
\* to itself fails with KeyError instead of recursing
get_method_visited(mm, sds, d, name, stack) ==
    IF <<d, name>> \in stack THEN KeyError
    ELSE IF name \in DOMAIN mm[d] THEN Found(d, name, mm[d][name])
    ELSE scan(mm, sds, d, name, 1, 1, stack \cup {<<d, name>>})

get_method(mm, sds, d, name, stack) ==
    IF <<d, name>> \in stack THEN RecursionError
    ELSE IF name \in DOMAIN mm[d] THEN Found(d, name, mm[d][name])
    ELSE scan(mm, sds, d, name, 1, 1, stack \cup {<<d, name>>})

scan(mm, sds, d, name, i, j, stack) ==
    IF i > Len(sds[d]) THEN KeyError
    ELSE IF ~startswith(name, sds[d][i].prefix) \/ j > Len(sds[d][i].subs)
    THEN scan(mm, sds, d, name, i + 1, 1, stack)
    ELSE LET r == get_method(mm, sds, sds[d][i].subs[j],
                             strip(name, sds[d][i].prefix), stack)
         IN  IF r.kind = "KeyError"
             THEN scan(mm, sds, d, name, i, j + 1, stack)
             ELSE r

\* d.get_method(name) in the current state
GetMethod(d, name) == get_method(method_map, subdispatchers, d, name, {})

----------------------------------------------------------------------------
(* Registration *)

\* what a registration call leaves in ret: the exception it raised and the
\* method that raised it, or Returned
Returned == [op |-> "none", raised |-> "none"]
Ret(op, raised) ==
    IF raised = "none" THEN Returned ELSE [op |-> op, raised |-> raised]

\* dict.setdefault(prefix, []).append(dispatcher) on the items of a dict
RECURSIVE IndexOf(_, _, _)
IndexOf(items, prefix, i) ==
    IF i > Len(items) THEN 0
    ELSE IF items[i].prefix = prefix THEN i
    ELSE IndexOf(items, prefix, i + 1)

setdefault_append(items, prefix, dispatcher) ==
    LET i == IndexOf(items, prefix, 1)
    IN  IF i = 0
        THEN Append(items, [prefix |-> prefix, subs |-> <<dispatcher>>])
        ELSE [items EXCEPT ![i].subs = Append(@, dispatcher)]

\* d.add_subdispatch(dispatcher, prefix)
add_subdispatch(d, dispatcher, prefix) ==
    /\ subdispatchers' = [subdispatchers EXCEPT
                             ![d] = setdefault_append(@, prefix, dispatcher)]
    /\ ret' = Ret("add_subdispatch", "none")
    /\ UNCHANGED <<method_map, added, calls>>

\* the name add_method registers under: "if not name: name = f.__name__"
EffectiveName(f, name) == IF name = None \/ name = <<>> THEN FuncName(f) ELSE name

\* add_method without the check of lines 67-68: a registered name is overwritten
add_method_overwrite(d, f, name, transfer_request) ==
    LET n == EffectiveName(f, name)
    IN  /\ method_map' = [method_map EXCEPT
                             ![d] = [k \in DOMAIN @ \cup {n} |->
                                       IF k = n
                                       THEN MethodParams(f, transfer_request)
                                       ELSE @[k]]]
        /\ ret' = Returned
        /\ added' = added \cup {[on |-> d, f |-> f, name |-> name,
                                 transfer_request |-> transfer_request]}
        /\ UNCHANGED <<subdispatchers, calls>>

\* d.add_method(f, name=name, transfer_request=transfer_request).  The raise of
\* line 68 names RPCError, which the module neither defines nor imports:
\* evaluating it raises NameError.
add_method(d, f, name, transfer_request) ==
    LET n == EffectiveName(f, name)
    IN  IF n \in DOMAIN method_map[d]
        THEN /\ ret' = Ret("add_method", "NameError")
             /\ UNCHANGED <<method_map, subdispatchers, added, calls>>
        ELSE /\ method_map' = [method_map EXCEPT
                                  ![d] = [k \in DOMAIN @ \cup {n} |->
                                            IF k = n
                                            THEN MethodParams(f, transfer_request)
                                            ELSE @[k]]]
             /\ ret' = Ret("add_method", "none")
             /\ added' = added \cup {[on |-> d, f |-> f, name |-> name,
                                      transfer_request |-> transfer_request]}
             /\ UNCHANGED <<subdispatchers, calls>>

\* The objects register_instance is called with, each the sequence of its
\* callable members in the order inspect.getmembers lists them; public is the
\* _rpc_public_name the decorator of lines 13-35 set, or None without it.
Objects == {"plain", "service"}
Members(obj) ==
    CASE obj = "plain" -> <<[f |-> "b", public |-> None]>>
      [] obj = "service" -> <<[f |-> "ab", public |-> None],
                              [f |-> "b", public |-> <<"b">>]>>

\* the members the predicate of line 204 keeps
RECURSIVE PublicMembers(_, _)
PublicMembers(ms, i) ==
    IF i > Len(ms) THEN <<>>
    ELSE IF ms[i].public # None THEN <<ms[i]>> \o PublicMembers(ms, i + 1)
    ELSE PublicMembers(ms, i + 1)

\* d.register_instance(obj, prefix).  Line 206 passes the name as a second
\* positional argument to add_method, whose name parameter is keyword-only:
\* the first public member makes the call raise TypeError, before anything is
\* registered or attached.
register_instance(d, obj, prefix) ==
    IF PublicMembers(Members(obj), 1) # <<>>
    THEN /\ ret' = Ret("register_instance", "TypeError")
         /\ UNCHANGED <<method_map, subdispatchers, added, calls>>
    ELSE LET fresh == Len(method_map) + 1
         IN  /\ method_map' = Append(method_map, <<>>)
             /\ subdispatchers' =
                    Append([subdispatchers EXCEPT
                               ![d] = setdefault_append(@, prefix, fresh)], <<>>)
             /\ ret' = Ret("register_instance", "none")
             /\ UNCHANGED <<added, calls>>

----------------------------------------------------------------------------
(* Requests, signatures and inspect.Signature.bind *)

\* longest positional argument list of a request
MaxArgs == 2

\* the values requests carry and handlers return
Values == {1, 2}
\* the keyword names requests use; no handler has a parameter z
KwNames == {"x", "z"}

\* the declared parameters of each handler, all positional-or-keyword:
\*   async def b()     async def ab(x, y=0)     def s(x)
Params(f) ==
    CASE f = "b" -> <<>>
      [] f = "ab" -> <<[name |-> "x", required |-> TRUE],
                       [name |-> "y", required |-> FALSE]>>
      [] f = "s" -> <<[name |-> "x", required |-> TRUE]>>

\* whether calling f returns an awaitable
IsCoroutineFunction(f) == f # "s"

\* a call's arguments: the request first when with_request, then the request's
\* positional arguments, then its keyword arguments in the order of the dict
Arguments(with_request, request) ==
    [with_request |-> with_request, args |-> request.args, kwargs |-> request.kwargs]

Positionals(a) == Len(a.args) + (IF a.with_request THEN 1 ELSE 0)
Keywords(a) == {a.kwargs[k].key : k \in 1..Len(a.kwargs)}
ParamNames(params) == {params[i].name : i \in 1..Len(params)}

Bound == <<"bound">>

\* the keyword arguments left once every parameter took its own
RECURSIVE bind_leftover(_, _, _)
bind_leftover(params, a, k) ==
    IF k > Len(a.kwargs) THEN Bound
    ELSE IF a.kwargs[k].key \notin ParamNames(params)
    THEN <<"got an unexpected keyword argument", a.kwargs[k].key>>
    ELSE bind_leftover(params, a, k + 1)

\* the parameters from the i-th on, which no positional argument filled
RECURSIVE bind_keywords(_, _, _)
bind_keywords(params, a, i) ==
    IF i > Len(params) THEN bind_leftover(params, a, 1)
    ELSE IF params[i].name \notin Keywords(a) /\ params[i].required
    THEN <<"missing a required argument", params[i].name>>
    ELSE bind_keywords(params, a, i + 1)

\* the i-th positional argument
RECURSIVE bind_positional(_, _, _)
bind_positional(params, a, i) ==
    IF i > Positionals(a) THEN bind_keywords(params, a, i)
    ELSE IF i > Len(params) THEN <<"too many positional arguments">>
    ELSE IF params[i].name \in Keywords(a)
    THEN <<"multiple values for argument", params[i].name>>
    ELSE bind_positional(params, a, i + 1)

\* inspect.signature(f).bind(...) with arguments a: Bound, or the message of the
\* TypeError it raises
bind(f, a) == bind_positional(Params(f), a, 1)

----------------------------------------------------------------------------
(* dispatch *)

Raise(kind, msg) == [how |-> "raise", kind |-> kind, msg |-> msg]
Return(value) == [how |-> "return", value |-> value]

\* the exception classes derived from exceptions.BaseRpcError
RpcErrorKinds == {"MethodNotFoundError", "InvalidParamsError", "InternalError",
                  "DomainError"}
IsBaseRpcError(kind) == kind \in RpcErrorKinds
\* the exception classes derived from Exception; asyncio.CancelledError derives
\* from BaseException only
IsException(kind) == kind # "CancelledError"

NoEntry == [method |-> "none", froward_request |-> FALSE]
NotInvoked == [f |-> "none"]
NoFailure == [how |-> "none"]
Pending == [how |-> "pending"]

\* a batch is a list of requests: it has no attribute method
IsBatch(request) == "batch" \in DOMAIN request

\* the state of one dispatch coroutine: the Dispatcher and request it was called
\* with, the entry get_method returned, what bind answered, the call the handler
\* observed, how the handler ended, what dispatch handed to its caller, and the
\* records it passed to the module's logger (line 8), which no line of
\* dispatch calls
Call(pc, d, request, entry, bound, invoked, ended, outcome) ==
    [pc |-> pc, on |-> d, request |-> request, entry |-> entry, bound |-> bound,
     invoked |-> invoked, ended |-> ended, outcome |-> outcome, logged |-> <<>>]

\* the except clauses with the failure's message kept in the InternalError
except_clauses_leaky(e) ==
    IF IsBaseRpcError(e.kind) THEN Raise(e.kind, e.msg)
    ELSE IF IsException(e.kind) THEN Raise("InternalError", e.msg)
    ELSE Raise(e.kind, e.msg)

\* the except clauses without the clause of lines 127-128
except_clauses_generic(e) ==
    IF IsException(e.kind) THEN Raise("InternalError", <<>>)
    ELSE Raise(e.kind, e.msg)

\* the except clauses with "except BaseException" for the clause of line 129
except_clauses_catch_all(e) ==
    IF IsBaseRpcError(e.kind) THEN Raise(e.kind, e.msg)
    ELSE Raise("InternalError", <<>>)

\* lines 127-131: what dispatch does with exception e raised by the handler
except_clauses(e) ==
    IF IsBaseRpcError(e.kind) THEN Raise(e.kind, e.msg)
    ELSE IF IsException(e.kind) THEN Raise("InternalError", <<>>)
    ELSE Raise(e.kind, e.msg)

\* lines 122-131 once the call of the handler ended the way `ended` says.  A
\* plain function's return value is not awaitable: the await raises TypeError
\* inside the try block.
invoke_result(f, ended) ==
    IF ended.how = "raise" THEN except_clauses(ended)
    ELSE IF IsCoroutineFunction(f) THEN Return(ended.value)
    ELSE except_clauses(Raise("TypeError", <<"object can't be used in 'await' expression">>))

\* lines 111-119: the arguments bind is called with
bind_arguments(entry, request) == Arguments(entry.froward_request, request)
\* the call without the branch of line 124: the request is never passed
call_arguments_plain(entry, request) == Arguments(FALSE, request)

\* lines 123-126: the arguments the handler is called with
call_arguments(entry, request) == Arguments(entry.froward_request, request)

\* lines 111-126, with the entry get_method returned: bind, then call the
\* handler, which leaves dispatch at line 124 or 126
validate_and_call(d, request, entry) ==
    LET b == bind(entry.method, bind_arguments(entry, request))
        inv == [f |-> entry.method] @@ call_arguments(entry, request)
    IN  IF b # Bound
        THEN Call("done", d, request, entry, b, NotInvoked, NoFailure,
                  Raise("InvalidParamsError", b))
        ELSE Call("invoking", d, request, entry, b, inv, Pending, Pending)

\* lines 104-126: d.dispatch(request) up to the call of the handler
dispatch(d, request) ==
    IF IsBatch(request)
    THEN Call("done", d, request, NoEntry, <<>>, NotInvoked, NoFailure,
              Raise("AttributeError", <<"object has no attribute 'method'">>))
    ELSE LET m == GetMethod(d, request.method)
         IN  CASE m.kind = "KeyError" ->
                    Call("done", d, request, NoEntry, <<>>, NotInvoked, NoFailure,
                         Raise("MethodNotFoundError", <<>>))
               [] m.kind = "RecursionError" ->
                    Call("done", d, request, NoEntry, <<>>, NotInvoked, NoFailure,
                         Raise("RecursionError", <<>>))
               [] m.kind = "ok" -> validate_and_call(d, request, m.entry)

\* the resumption resolving the name again: when the handler ended, the entry
\* is looked up anew and the outcome is that of the entry found then
resume_reresolve(call, ended) ==
    LET m == GetMethod(call.on, call.request.method)
        entry == IF m.kind = "ok" THEN m.entry ELSE call.entry
    IN  [call EXCEPT !.pc = "done", !.ended = ended, !.entry = entry,
                     !.outcome = invoke_result(entry.method, ended)]

\* the resumption with one result shared by all coroutines: a dispatch that
\* resumes after another one ended hands its caller that one's outcome
resume_shared(call, ended) ==
    LET over == {t \in DOMAIN calls : calls[t].pc = "done"}
    IN  [call EXCEPT !.pc = "done", !.ended = ended,
                     !.outcome = IF over # {}
                                 THEN calls[CHOOSE t \in over : TRUE].outcome
                                 ELSE invoke_result(call.entry.method, ended)]

\* lines 122-131 once the handler ended
resume(call, ended) ==
    [call EXCEPT !.pc = "done", !.ended = ended,
                 !.outcome = invoke_result(call.entry.method, ended)]

Slots == DOMAIN calls

\* dispatch memoising what it resolved: an entry found in a subdispatcher is
\* copied into d's own method_map under the requested name
Dispatch_caching(s, d, request, endings) ==
    /\ calls[s].pc = "idle"
    /\ LET c == dispatch(d, request)
       IN  /\ IF c.pc = "invoking" /\ ~IsCoroutineFunction(c.entry.method)
              THEN \E ended \in endings : calls' = [calls EXCEPT ![s] = resume(c, ended)]
              ELSE calls' = [calls EXCEPT ![s] = c]
           /\ IF c.entry # NoEntry /\ request.method \notin DOMAIN method_map[d]
              THEN method_map' = [method_map EXCEPT
                                     ![d] = [k \in DOMAIN @ \cup {request.method} |->
                                               IF k = request.method THEN c.entry
                                               ELSE @[k]]]
              ELSE UNCHANGED method_map
    /\ UNCHANGED <<subdispatchers, ret, added>>

\* A caller awaits d.dispatch(request): slot s holds this coroutine from then
\* on (a slot is one call of dispatch).  The call of a coroutine
\* function suspends dispatch at the await; a plain function has run to its end
\* when the call returns, in one of the ways in endings, and dispatch goes on
\* without suspending.
Dispatch(s, d, request, endings) ==
    /\ calls[s].pc = "idle"
    /\ LET c == dispatch(d, request)
       IN  IF c.pc = "invoking" /\ ~IsCoroutineFunction(c.entry.method)
           THEN \E ended \in endings : calls' = [calls EXCEPT ![s] = resume(c, ended)]
           ELSE calls' = [calls EXCEPT ![s] = c]
    /\ UNCHANGED <<method_map, subdispatchers, ret, added>>

\* the handler awaited in slot s returns or raises
HandlerEnds(s, ended) ==
    /\ calls[s].pc = "invoking"
    /\ calls' = [calls EXCEPT ![s] = resume(@, ended)]
    /\ UNCHANGED <<method_map, subdispatchers, ret, added>>

\* the scheduler cancels the task suspended in slot s: CancelledError is raised
\* at the await
Cancel(s) == HandlerEnds(s, Raise("CancelledError", <<>>))

----------------------------------------------------------------------------
(* Specification of the registry tree *)

Idle == [pc |-> "idle"]

Init ==
    /\ method_map = [d \in Held |-> <<>>]
    /\ subdispatchers = [d \in Held |-> <<>>]
    /\ ret = Returned
    /\ added = {}
    /\ calls = <<Idle>>

\* The entries the tree specification registers: each held Dispatcher is given
\* callables of its own, so that entries of different Dispatchers differ.
TreeEntry(d) ==
    CASE d = 1 -> <<"b", FALSE>>
      [] d = 2 -> <<"ab", TRUE>>
      [] d = 3 -> <<"s", FALSE>>
\* the names it registers them under
TreeNames == {<<"b">>, <<"a", "b">>}

AddMethodTree ==
    /\ TreeSize < MaxTreeOps
    /\ \E d \in Held, name \in TreeNames :
          add_method(d, TreeEntry(d)[1], name, TreeEntry(d)[2])

\* The attachments the tree specification makes: a Dispatcher attaches itself
\* or a higher-numbered one.  The held Dispatchers are interchangeable, so every
\* acyclic tree over them is one of these up to renaming, and a Dispatcher
\* attached to itself gives the cycles.
TreeLinks == {l \in Held \X Held : l[1] <= l[2]}

AddSubdispatchTree ==
    /\ TreeSize < MaxTreeOps
    /\ \E l \in TreeLinks, prefix \in Prefixes : add_subdispatch(l[1], l[2], prefix)

NextTree == AddMethodTree \/ AddSubdispatchTree

SpecTree == Init /\ [][NextTree]_vars

----------------------------------------------------------------------------
(* Inputs of dispatch *)

\* the positional argument lists of requests
ArgLists == UNION {[1..k -> Values] : k \in 0..MaxArgs}

\* the keyword dicts of requests: every ordered choice of distinct keyword names
KwOrders ==
    {q \in UNION {[1..k -> KwNames] : k \in 0..Cardinality(KwNames)} :
        \A i, j \in 1..Len(q) : i # j => q[i] # q[j]}
KwDicts == {[k \in 1..Len(q) |-> [key |-> q[k], value |-> 1]] : q \in KwOrders}

Request(method, args, kwargs) == [method |-> method, args |-> args, kwargs |-> kwargs]

\* a batch [reqOk, reqBad, reqOk2], and a shorter one
Batches ==
    {[batch |-> <<Request(<<"b">>, <<>>, <<>>), Request(<<"a">>, <<>>, <<>>),
                  Request(<<"a", "b">>, <<1>>, <<>>)>>],
     [batch |-> <<Request(<<"b">>, <<>>, <<>>)>>]}

\* the ways a handler ends: it returns a value, raises an error of the taxonomy,
\* or raises another exception
DomainErrors == {Raise("DomainError", <<"m1">>), Raise("DomainError", <<"m2">>),
                 Raise("InvalidParamsError", <<"m1">>)}
OtherErrors == {Raise("ValueError", <<"m1">>), Raise("ValueError", <<"m2">>),
                Raise("KeyError", <<"m1">>)}
Endings == {Return(v) : v \in Values} \cup DomainErrors \cup OtherErrors

----------------------------------------------------------------------------
(* Specification of dispatch: a small registry, every request *)

\* successful registrations in the dispatch specification
MaxDispatchOps == 2

\* the names its requests ask for: "a" is never registered
DispatchNames == {<<"b">>, <<"a", "b">>, <<"a">>}
DispatchRequests ==
    {Request(n, a, k) : n \in DispatchNames, a \in ArgLists, k \in KwDicts} \cup Batches

\* every handler is registered under its own name, on Dispatcher 1 or 2
AddMethodD ==
    /\ TreeSize < MaxDispatchOps
    /\ \E d \in {1, 2}, f \in Handlers, b \in BOOLEAN : add_method(d, f, None, b)

\* Dispatcher 2 is attached to Dispatcher 1 under "a"
AddSubdispatchD ==
    /\ TreeSize < MaxDispatchOps
    /\ add_subdispatch(1, 2, <<"a">>)

DispatchD ==
    \E s \in Slots, request \in DispatchRequests : Dispatch(s, 1, request, Endings)

HandlerEndsD == \E s \in Slots, ended \in Endings : HandlerEnds(s, ended)

CancelD == \E s \in Slots : Cancel(s)

NextDispatch == AddMethodD \/ AddSubdispatchD \/ DispatchD \/ HandlerEndsD \/ CancelD

SpecDispatch == Init /\ [][NextDispatch]_vars

----------------------------------------------------------------------------
(* Specification of the whole Dispatcher: every operation, narrow inputs *)

\* successful registrations in the whole specification
MaxOps == 3

\* the Dispatchers the registrations are made on: the root and one more
Registrars == {1, 2}
\* the (callable, flag) pairs and the names add_method is called with
Entries == {<<"b", FALSE>>, <<"ab", TRUE>>}
AddNames == {None, <<>>, <<"b">>}

\* the requests, made to Dispatcher 1: the two names registered, no arguments
Requests == {Request(n, <<>>, <<>>) : n \in {<<"b">>, <<"a", "b">>}}
\* the ways the handlers end
FewEndings == {Return(1), Raise("DomainError", <<"m1">>), Raise("ValueError", <<"m1">>)}

\* (a call that is refused registers nothing: it is made at any size)
AddMethod ==
    \E d \in Registrars, e \in Entries, name \in AddNames :
        /\ TreeSize < MaxOps \/ EffectiveName(e[1], name) \in DOMAIN method_map[d]
        /\ add_method(d, e[1], name, e[2])

AddSubdispatch ==
    /\ TreeSize < MaxOps
    /\ \E l \in TreeLinks \cap (Registrars \X Registrars), prefix \in Prefixes :
          add_subdispatch(l[1], l[2], prefix)

RegisterInstance ==
    /\ TreeSize < MaxOps
    /\ Len(method_map) < Cardinality(Held) + MaxFresh
    /\ \E d \in Registrars, obj \in Objects, prefix \in Prefixes :
          register_instance(d, obj, prefix)

DispatchAny ==
    \E s \in Slots, request \in Requests : Dispatch(s, 1, request, FewEndings)

HandlerEndsAny == \E s \in Slots, ended \in FewEndings : HandlerEnds(s, ended)

CancelAny == \E s \in Slots : Cancel(s)

Next ==
    \/ AddMethod
    \/ AddSubdispatch
    \/ RegisterInstance
    \/ DispatchAny
    \/ HandlerEndsAny
    \/ CancelAny

Spec == Init /\ [][Next]_vars

----------------------------------------------------------------------------
(* The candidates of a resolution, stated apart from get_method *)

\* The calls d.get_method(name) can make once name has no direct match, in
\* insertion order: the items of d's prefix dict in the order the prefixes were
\* first added, the children of one prefix in the order they were attached.
RECURSIVE ItemCandidates(_, _, _)
ItemCandidates(item, name, j) ==
    IF j > Len(item.subs) THEN <<>>
    ELSE <<[child |-> item.subs[j], rest |-> strip(name, item.prefix),
            prefix |-> item.prefix]>> \o ItemCandidates(item, name, j + 1)

RECURSIVE CandidatesFrom(_, _, _)
CandidatesFrom(items, name, i) ==
    IF i > Len(items) THEN <<>>
    ELSE (IF startswith(name, items[i].prefix)
          THEN ItemCandidates(items[i], name, 1) ELSE <<>>)
         \o CandidatesFrom(items, name, i + 1)

Candidates(d, name) == CandidatesFrom(subdispatchers[d], name, 1)

\* what candidate c resolves to
Resolves(c) == GetMethod(c.child, c.rest)

\* the index of the first candidate from k on that does not fail with KeyError,
\* every candidate before it having failed; 0 when all fail
RECURSIVE FirstResolving(_, _)
FirstResolving(cs, k) ==
    IF k > Len(cs) THEN 0
    ELSE IF Resolves(cs[k]).kind # "KeyError" THEN k
    ELSE FirstResolving(cs, k + 1)

----------------------------------------------------------------------------
(* Claims about resolution *)

\* some Dispatcher is attached to itself
SelfAttached ==
    \E d \in Regs : \E i \in 1..Len(subdispatchers[d]) :
      \E j \in 1..Len(subdispatchers[d][i].subs) : subdispatchers[d][i].subs[j] = d

\* C2 as stated: whenever a child c attached under a prefix has a direct
\* method r, get_method(prefix + r) on the parent returns c's entry for r, the
\* one exception being a direct method of the parent named prefix + r.
\* (Stated for trees in which no Dispatcher is attached to itself and for
\* resolutions that terminate: the claim fails there already.)
C2_OnlyDirectBeatsChild ==
    \A d \in Regs : \A i \in 1..Len(subdispatchers[d]) :
      LET item == subdispatchers[d][i]
      IN  \A j \in 1..Len(item.subs) : \A r \in DOMAIN method_map[item.subs[j]] :
            LET res == GetMethod(d, item.prefix \o r)
            IN  \/ item.prefix \o r \in DOMAIN method_map[d]
                \/ SelfAttached
                \/ res.kind = "RecursionError"
                \/ res.kind = "ok" /\ res.entry = method_map[item.subs[j]][r]

\* C2 amended: whenever a child c attached under a prefix has a direct method
\* r, get_method(prefix + r) on the parent returns c's entry for r, found in c
\* under r, provided the parent has no direct method named prefix + r and every
\* candidate tried before c (the children of prefixes added earlier, and the
\* children attached earlier under the same prefix) fails with KeyError.
C2_ChildMethodResolves ==
    \A d \in Regs : \A name \in Names \ DOMAIN method_map[d] :
      LET cs == Candidates(d, name)
          k == FirstResolving(cs, 1)
      IN  (k # 0 /\ cs[k].rest \in DOMAIN method_map[cs[k].child])
          => GetMethod(d, name) =
               Found(cs[k].child, cs[k].rest, method_map[cs[k].child][cs[k].rest])

\* C2's case: a parent without direct match resolves a two-character name into
\* a child attached under "a", after an earlier candidate failed.
C2_Witness ==
    \E d \in Regs : \E name \in Names :
      LET cs == Candidates(d, name)
      IN  /\ name \notin DOMAIN method_map[d]
          /\ \E k \in 2..Len(cs) :
                /\ cs[k].prefix # <<>>
                /\ cs[k].child # d
                /\ cs[k].rest \in DOMAIN method_map[cs[k].child]
                /\ FirstResolving(cs, 1) = k
                /\ GetMethod(d, name).owner = cs[k].child

\* C3: without a direct match, get_method returns what the first candidate in
\* insertion order that resolves returns (every candidate before it having
\* failed with KeyError), and fails with KeyError exactly when every candidate
\* does: first-added prefix, then first-attached child, each resolved
\* recursively on the stripped name.
C3_FirstMatchInInsertionOrder ==
    \A d \in Regs : \A name \in Names \ DOMAIN method_map[d] :
      LET cs == Candidates(d, name)
          k == FirstResolving(cs, 1)
      IN  GetMethod(d, name) = IF k = 0 THEN KeyError ELSE Resolves(cs[k])

\* C3's case: two candidates resolve to different entries, the later one under
\* a longer prefix or attached later under the same prefix, and the earlier wins.
C3_Witness ==
    \E d \in Regs : \E name \in Names :
      LET cs == Candidates(d, name)
      IN  /\ name \notin DOMAIN method_map[d]
          /\ \E k \in 1..Len(cs) : \E l \in (k + 1)..Len(cs) :
                /\ Resolves(cs[k]).kind = "ok"
                /\ Resolves(cs[l]).kind = "ok"
                /\ Resolves(cs[k]).entry # Resolves(cs[l]).entry
                /\ cs[k].child # d /\ cs[l].child # d
                /\ Len(cs[l].prefix) > Len(cs[k].prefix)
                /\ FirstResolving(cs, 1) = k
                /\ GetMethod(d, name) = Resolves(cs[k])

\* C4: a name in a Dispatcher's own method_map resolves to that Dispatcher's
\* entry, whatever is attached under whatever prefix.
C4_DirectMatchWins ==
    \A d \in Regs : \A name \in DOMAIN method_map[d] :
      GetMethod(d, name) = Found(d, name, method_map[d][name])

\* C4's case: a direct method whose name a child attached under a prefix of it
\* (the empty prefix or "a") resolves as well, to another entry.
C4_Witness ==
    \E d \in Regs : \E name \in DOMAIN method_map[d] :
      \E k \in 1..Len(Candidates(d, name)) :
        LET c == Candidates(d, name)[k]
        IN  /\ c.child # d
            /\ Resolves(c).kind = "ok"
            /\ Resolves(c).entry # method_map[d][name]
            /\ GetMethod(d, name).owner = d

----------------------------------------------------------------------------
(* Claims about registration *)

\* what d.get_method(name) returns when it finds entry (f, transfer_request) in
\* d's own method_map
OwnEntry(d, name, f, transfer_request) ==
    Found(d, name, MethodParams(f, transfer_request))

\* C5 as stated: after add_method(f, name=n, transfer_request=b) returned
\* normally on Dispatcher R, for any string n, R.get_method(n) returns the entry
\* (f, b), whatever was called since.
C5_AddedNameResolves ==
    \A a \in added :
      a.name # None => GetMethod(a.on, a.name) = OwnEntry(a.on, a.name, a.f, a.transfer_request)

\* C5 amended: after add_method(f, name=n, transfer_request=b) returned normally
\* on Dispatcher R, for a non-empty string n, R.get_method(n) returns the entry
\* (f, b), and goes on returning it after any later add_method,
\* add_subdispatch, register_instance and dispatch.  (With the empty string
\* add_method registers under f.__name__, as it does without a name.)
C5_AddedNonEmptyNameResolves ==
    \A a \in added :
      (a.name # None /\ a.name # <<>>) =>
        GetMethod(a.on, a.name) = OwnEntry(a.on, a.name, a.f, a.transfer_request)

\* C5's case: a method added under the name "b", and since then a second
\* add_method of the same name refused, a child attached that resolves the name
\* to another entry, and a dispatch of the name completed.
C5_Witness ==
    \E a \in added :
      /\ a.name = <<"b">>
      /\ ret = [op |-> "add_method", raised |-> "NameError"]
      /\ \E k \in 1..Len(Candidates(a.on, a.name)) :
            LET r == Resolves(Candidates(a.on, a.name)[k])
            IN  r.kind = "ok" /\ r.entry # MethodParams(a.f, a.transfer_request)
      /\ \E s \in Slots :
            /\ calls[s].pc = "done"
            /\ calls[s].on = a.on
            /\ calls[s].request.method = a.name
            /\ calls[s].entry = MethodParams(a.f, a.transfer_request)

\* C6: an add_method that fails, fails with the duplicate-name error of the
\* registry (the RPCError line 68 means to raise).
C6_DuplicateRaisesRegistryError ==
    ret.op = "add_method" => ret.raised = "RPCError"

----------------------------------------------------------------------------
(* Claims about dispatch *)

\* C1: dispatch never raises: every call of dispatch that ended handed its
\* caller a return value, also when the name did not resolve, the arguments did
\* not bind, or the handler raised.  (Batches and cancelled calls, which the
\* claim does not name, are left out.)
C1_DispatchNeverRaises ==
    \A s \in Slots :
      (calls[s].pc = "done" /\ ~IsBatch(calls[s].request)
          /\ calls[s].ended # Raise("CancelledError", <<>>))
      => calls[s].outcome.how = "return"

\* whether the request's arguments bind to the signature of the entry's
\* callable, the request first exactly when the entry forwards it
Binds(entry, request) ==
    bind(entry.method, Arguments(entry.froward_request, request)) = Bound

\* C7: binding is checked before the handler is called: when the arguments do
\* not bind, the outcome is InvalidParams and the handler was never called; when
\* the handler was called, the arguments bind, and it was called with the
\* request's arguments, the request first exactly when the entry's flag is set.
C7_BindBeforeInvoke ==
    \A s \in Slots :
      LET c == calls[s]
      IN  (c.pc # "idle" /\ c.entry # NoEntry) =>
            /\ ~Binds(c.entry, c.request) =>
                  /\ c.pc = "done"
                  /\ c.outcome.how = "raise"
                  /\ c.outcome.kind = "InvalidParamsError"
                  /\ c.invoked = NotInvoked
            /\ c.invoked # NotInvoked =>
                  /\ Binds(c.entry, c.request)
                  /\ c.invoked.f = c.entry.method
                  /\ c.invoked.with_request = c.entry.froward_request
                  /\ c.invoked.args = c.request.args
                  /\ c.invoked.kwargs = c.request.kwargs
            /\ Binds(c.entry, c.request) => c.invoked # NotInvoked

\* C7's case: a handler called with the request first, then the request's
\* positional arguments.
C7_Witness ==
    \E s \in Slots :
      /\ calls[s].pc = "invoking"
      /\ calls[s].entry.froward_request
      /\ calls[s].invoked.with_request
      /\ calls[s].invoked.args # <<>>

\* C7's other case: a call refused for its arguments, the handler not called.
C7_WitnessRefused ==
    \E s \in Slots :
      /\ calls[s].pc = "done"
      /\ calls[s].entry # NoEntry
      /\ calls[s].entry.froward_request
      /\ calls[s].outcome.kind = "InvalidParamsError"

\* the failures outside the taxonomy a handler can end with
Suppressed(e) == e.how = "raise" /\ ~IsBaseRpcError(e.kind) /\ IsException(e.kind)

\* C8: when the handler raises outside the taxonomy, the outcome is
\* InternalError with an empty message, and nothing else: whichever two such
\* failures end the same call, the caller gets the same outcome.
C8_InternalErrorHidesFailure ==
    \A s \in Slots :
      /\ (calls[s].pc = "done" /\ Suppressed(calls[s].ended))
            => calls[s].outcome = Raise("InternalError", <<>>)
      /\ calls[s].pc = "invoking" =>
            \A e1, e2 \in OtherErrors :
                resume(calls[s], e1).outcome = resume(calls[s], e2).outcome

\* C8's case: a handler ended with ValueError("m2") and the call is done.
C8_Witness ==
    \E s \in Slots :
      /\ calls[s].pc = "done"
      /\ calls[s].ended = Raise("ValueError", <<"m2">>)
      /\ calls[s].outcome.kind = "InternalError"

\* C9: when the handler raises an error of the taxonomy, the outcome is that
\* error, kind and message unchanged.
C9_DomainErrorPropagates ==
    \A s \in Slots :
      (calls[s].pc = "done" /\ calls[s].ended.how = "raise"
          /\ IsBaseRpcError(calls[s].ended.kind))
      => calls[s].outcome = calls[s].ended

\* C9's case: a handler ended with DomainError("m2").
C9_Witness ==
    \E s \in Slots :
      /\ calls[s].pc = "done"
      /\ calls[s].ended = Raise("DomainError", <<"m2">>)
      /\ calls[s].outcome.kind = "DomainError"

\* C10: the dispatch of a batch returns one result for each of its
\* sub-requests.
C10_BatchOneResultEach ==
    \A s \in Slots :
      (calls[s].pc = "done" /\ IsBatch(calls[s].request)) =>
        /\ calls[s].outcome.how = "return"
        /\ Len(calls[s].outcome.value) = Len(calls[s].request.batch)

----------------------------------------------------------------------------
(* Claims about register_instance *)

\* the exposed names of the members of obj that carry the public marking
ExposedNames(obj) ==
    LET pm == PublicMembers(Members(obj), 1)
    IN  {pm[i].public : i \in 1..Len(pm)}

\* the member of obj exposed under name e
ExposedMember(obj, e) ==
    LET pm == PublicMembers(Members(obj), 1)
    IN  (CHOOSE i \in 1..Len(pm) : pm[i].public = e)

\* C11: every register_instance(obj, prefix) on Dispatcher d creates a fresh
\* Dispatcher whose method_map holds exactly the members of obj that carry the
\* public marking, each under its exposed name, and attaches it to d as the
\* last child under prefix; an exposed name that did not resolve on d under
\* the prefix before resolves to that member afterwards.
C11_RegisterInstanceAttachesPublicMembers ==
    [][\A d \in Registrars, obj \in Objects, prefix \in Prefixes :
         register_instance(d, obj, prefix) =>
           LET fresh == Len(method_map) + 1
               pm == PublicMembers(Members(obj), 1)
           IN  /\ Len(method_map') = fresh
               /\ DOMAIN method_map'[fresh] = ExposedNames(obj)
               /\ \A e \in ExposedNames(obj) :
                     method_map'[fresh][e].method = pm[ExposedMember(obj, e)].f
               /\ \E i \in 1..Len(subdispatchers'[d]) :
                     LET item == subdispatchers'[d][i]
                     IN  /\ item.prefix = prefix
                         /\ item.subs # <<>>
                         /\ item.subs[Len(item.subs)] = fresh
               /\ \A e \in ExposedNames(obj) :
                     GetMethod(d, prefix \o e).kind = "KeyError" =>
                       get_method(method_map', subdispatchers', d, prefix \o e, {})
                         = Found(fresh, e, method_map'[fresh][e])
    ]_vars

----------------------------------------------------------------------------
(* Claims about the stages of one dispatch *)

\* what dispatch handed its caller is a Response: a value it returned
IsResponse(outcome) == outcome.how = "return"

\* C12: every dispatch that ended went through the stages in order, on one of
\* the five paths, and handed its caller one Response: NotFound (nothing
\* resolved, nothing bound, nothing called), InvalidParams (resolved, not
\* bound, nothing called), DomainError and InternalFailure (resolved, bound,
\* called, the handler raised) and Success (resolved, bound, called, the
\* handler returned).  (Batches and cancelled calls are left out.)
C12_EveryTerminalStateOneResponse ==
    \A s \in Slots :
      LET c == calls[s]
      IN  (c.pc = "done" /\ ~IsBatch(c.request)
              /\ c.ended # Raise("CancelledError", <<>>)) =>
            /\ IsResponse(c.outcome)
            /\ \/ /\ c.entry = NoEntry
                  /\ c.bound = <<>> /\ c.invoked = NotInvoked /\ c.ended = NoFailure
               \/ /\ c.entry # NoEntry /\ c.bound # Bound
                  /\ c.invoked = NotInvoked /\ c.ended = NoFailure
               \/ /\ c.entry # NoEntry /\ c.bound = Bound
                  /\ c.invoked # NotInvoked /\ c.ended.how \in {"raise", "return"}

\* the stages alone: the five paths, whatever dispatch handed its caller
StagesInOrder ==
    \A s \in Slots :
      LET c == calls[s]
      IN  (c.pc = "done" /\ ~IsBatch(c.request)) =>
            \/ /\ c.entry = NoEntry /\ c.outcome.kind = "MethodNotFoundError"
               /\ c.bound = <<>> /\ c.invoked = NotInvoked /\ c.ended = NoFailure
            \/ /\ c.entry # NoEntry /\ c.bound # Bound
               /\ c.outcome.kind = "InvalidParamsError"
               /\ c.invoked = NotInvoked /\ c.ended = NoFailure
            \/ /\ c.entry # NoEntry /\ c.bound = Bound
               /\ c.invoked # NotInvoked /\ c.ended.how \in {"raise", "return"}

----------------------------------------------------------------------------
(* Claims about resolution over the whole tree *)

\* the Dispatchers attached to d, under the empty prefix only when empty_only
Attached(d, empty_only) ==
    UNION {{subdispatchers[d][i].subs[j] : j \in 1..Len(subdispatchers[d][i].subs)} :
             i \in {x \in 1..Len(subdispatchers[d]) :
                      ~empty_only \/ subdispatchers[d][x].prefix = <<>>}}

\* the Dispatchers reached from those in S by at most n more attachments
RECURSIVE Closure(_, _, _)
Closure(S, empty_only, n) ==
    IF n = 0 THEN S
    ELSE Closure(S \cup UNION {Attached(x, empty_only) : x \in S}, empty_only, n - 1)

\* the Dispatchers reached from d by one attachment or more
Descendants(d, empty_only) ==
    Closure(Attached(d, empty_only), empty_only, Len(method_map))

\* no Dispatcher is its own descendant
Acyclic == \A d \in Regs : d \notin Descendants(d, FALSE)

\* The chains of attachments from d that spell name: the pairs <<owner, m>>
\* such that d = R0 -p1-> R1 ... -pk-> Rk = owner (k >= 0) and m is a direct
\* method of owner with p1 + ... + pk + m = name.  (Defined on acyclic trees.)
RECURSIVE Chains(_, _)
Chains(d, name) ==
    (IF name \in DOMAIN method_map[d] THEN {<<d, name>>} ELSE {})
    \cup UNION {UNION {Chains(subdispatchers[d][i].subs[j],
                              strip(name, subdispatchers[d][i].prefix)) :
                         j \in 1..Len(subdispatchers[d][i].subs)} :
                  i \in {x \in 1..Len(subdispatchers[d]) :
                           startswith(name, subdispatchers[d][x].prefix)}}

\* C13: on an acyclic tree, get_method(name) on d fails with KeyError exactly
\* when no chain of attachments from d spells name; otherwise it returns an
\* entry, and that entry is the direct method at the end of such a chain.  (A
\* candidate that fails never hides a later chain.)
C13_NotFoundIffNoChain ==
    Acyclic =>
      \A d \in Regs : \A name \in Names :
        LET r == GetMethod(d, name)
            ch == Chains(d, name)
        IN  /\ r.kind = "KeyError" <=> ch = {}
            /\ r.kind # "KeyError" =>
                  /\ r.kind = "ok"
                  /\ <<r.owner, r.key>> \in ch
                  /\ r.entry = method_map[r.owner][r.key]

\* C13's case: on an acyclic tree, a name the first candidate fails to resolve
\* is found two attachments deep through a later prefix, and another name
\* with the same candidates is spelled by no chain and fails.
C13_Witness ==
    /\ Acyclic
    /\ \E d \in Regs : \E name \in Names :
         LET cs == Candidates(d, name)
         IN  /\ name \notin DOMAIN method_map[d]
             /\ \E k \in 2..Len(cs) :
                   /\ FirstResolving(cs, 1) = k
                   /\ Resolves(cs[k]).owner # cs[k].child
                   /\ GetMethod(d, name) = Resolves(cs[k])
    /\ \E d \in Regs : \E name \in Names :
         /\ Len(Candidates(d, name)) >= 2
         /\ Chains(d, name) = {}
         /\ GetMethod(d, name) = KeyError

----------------------------------------------------------------------------
(* Specification of concurrent dispatch: setup, then several calls in flight *)

\* the dispatch coroutines that can be in flight at once
MaxCalls == 2
\* successful registrations of the setup phase
MaxSetupOps == 3

InitConc ==
    /\ method_map = [d \in Held |-> <<>>]
    /\ subdispatchers = [d \in Held |-> <<>>]
    /\ ret = Returned
    /\ added = {}
    /\ calls = [s \in 1..MaxCalls |-> Idle]

\* the setup phase lasts until the first dispatch
SetupPhase == \A s \in Slots : calls[s].pc = "idle"

\* the registrations of the setup phase: b() on Dispatcher 1, and under the
\* name "b" of Dispatcher 2 either ab(x, y=0), which takes the request, or the
\* plain function s(x)
SetupMethods == {<<1, "b", None, FALSE>>, <<2, "ab", <<"b">>, TRUE>>,
                 <<2, "s", <<"b">>, FALSE>>}

AddMethodC ==
    /\ SetupPhase
    /\ TreeSize < MaxSetupOps
    /\ \E m \in SetupMethods : add_method(m[1], m[2], m[3], m[4])

AddSubdispatchC ==
    /\ SetupPhase
    /\ TreeSize < MaxSetupOps
    /\ add_subdispatch(1, 2, <<"a">>)

\* the requests, made to Dispatcher 1: by name and number of arguments
ConcRequests ==
    {Request(<<"b">>, <<>>, <<>>), Request(<<"b">>, <<1>>, <<>>),
     Request(<<"a", "b">>, <<>>, <<>>), Request(<<"a", "b">>, <<1>>, <<>>),
     Request(<<"a">>, <<>>, <<>>)}

DispatchC ==
    \E s \in Slots, request \in ConcRequests : Dispatch(s, 1, request, FewEndings)

HandlerEndsC == \E s \in Slots, ended \in FewEndings : HandlerEnds(s, ended)

CancelC == \E s \in Slots : Cancel(s)

NextConc == AddMethodC \/ AddSubdispatchC \/ DispatchC \/ HandlerEndsC \/ CancelC

SpecConc == InitConc /\ [][NextConc]_vars

----------------------------------------------------------------------------
(* Claims about concurrent dispatch *)

\* C14: with the registry fixed once dispatching began, whatever other calls
\* are in flight and however they interleave, each call is where the same
\* request dispatched alone on the registry would be: suspended in the same
\* handler with the same arguments, or done with the outcome the handler's
\* ending gives alone.  A call is suspended only inside a handler that was
\* called (resolved, bound, a coroutine function): never before.
C14_OutcomeAsAlone ==
    \A s \in Slots :
      LET c == calls[s]
      IN  c.pc # "idle" =>
            LET alone == dispatch(c.on, c.request)
            IN  /\ c.entry = alone.entry
                /\ c.bound = alone.bound
                /\ c.invoked = alone.invoked
                /\ c.pc = "invoking" =>
                      /\ c = alone
                      /\ c.invoked # NotInvoked
                      /\ c.bound = Bound
                      /\ IsCoroutineFunction(c.entry.method)
                /\ c.pc = "done" =>
                      c.outcome = IF alone.pc = "done" THEN alone.outcome
                                  ELSE invoke_result(alone.entry.method, c.ended)

\* C14's case: two calls in flight at once, suspended in different handlers,
\* for different requests.
C14_Witness ==
    \E s, t \in Slots :
      /\ s # t
      /\ calls[s].pc = "invoking"
      /\ calls[t].pc = "invoking"
      /\ calls[s].request # calls[t].request
      /\ calls[s].entry # calls[t].entry

\* C15: when a call suspended in its handler is cancelled, CancelledError
\* leaves dispatch: the call hands its caller neither a return value nor an
\* InternalError (nor any other error of the taxonomy), and every other call,
\* done or in flight, is left as it was.
C15_CancelCrossesBoundary ==
    [][\A s \in Slots :
         (calls[s].pc = "invoking" /\ calls'[s].pc = "done"
             /\ calls'[s].ended = Raise("CancelledError", <<>>)) =>
           /\ calls'[s].outcome = Raise("CancelledError", <<>>)
           /\ \A t \in Slots \ {s} : calls'[t] = calls[t]
    ]_vars

\* C15's case: one call cancelled in its handler, another done with the value
\* its handler returned.
C15_Witness ==
    \E s, t \in Slots :
      /\ s # t
      /\ calls[s].pc = "done"
      /\ calls[s].ended = Raise("CancelledError", <<>>)
      /\ calls[s].outcome = Raise("CancelledError", <<>>)
      /\ calls[t].pc = "done"
      /\ calls[t].outcome = Return(1)

----------------------------------------------------------------------------
(* Claims about the server-side log *)

\* C16: every call whose handler failed outside the taxonomy, and which handed
\* its caller InternalError for it, has passed the failure to the logger.
C16_SuppressedFailureLogged ==
    \A s \in Slots :
      (calls[s].pc = "done" /\ Suppressed(calls[s].ended)
          /\ calls[s].outcome = Raise("InternalError", <<>>))
      => \E i \in 1..Len(calls[s].logged) : calls[s].logged[i] = calls[s].ended

----------------------------------------------------------------------------
(* Claims about what dispatch leaves alone *)

\* C17: a step of a dispatch (its start, with the resolution, the binding and
\* the call of the handler, or its resumption when the handler ended), whatever
\* its outcome, leaves the method_map and the subdispatchers of every
\* Dispatcher as they were, so that every name resolves on every Dispatcher
\* after the step to what it resolved to before.
C17_DispatchLeavesTreeUnchanged ==
    [][(\E s \in Slots : calls'[s] # calls[s]) =>
         /\ method_map' = method_map
         /\ subdispatchers' = subdispatchers
         /\ \A d \in Regs : \A name \in Names :
               get_method(method_map', subdispatchers', d, name, {}) = GetMethod(d, name)
    ]_vars

\* C17's case: a dispatch that resolved its name through a subdispatcher has
\* called the handler and returned its value.
C17_Witness ==
    \E s \in Slots :
      /\ calls[s].pc = "done"
      /\ calls[s].entry # NoEntry
      /\ calls[s].request.method \notin DOMAIN method_map[calls[s].on]
      /\ calls[s].outcome.how = "return"
      /\ GetMethod(calls[s].on, calls[s].request.method).entry = calls[s].entry

----------------------------------------------------------------------------
(* Specification of the attachment graph: two Dispatchers, every attachment *)

\* successful registrations in the graph specification
MaxGraphOps == 4

\* the Dispatchers of the graph specification that have children; the third
\* held Dispatcher is a leaf
Nodes == {1, 2}

AddMethodGraph ==
    /\ TreeSize < MaxGraphOps
    /\ \E d \in Held, name \in TreeNames :
          add_method(d, TreeEntry(d)[1], name, TreeEntry(d)[2])

\* any Dispatcher is attached to either node, the node itself included, under
\* any prefix, any number of times
AddSubdispatchGraph ==
    /\ TreeSize < MaxGraphOps
    /\ \E d \in Nodes, c \in Held, prefix \in Prefixes : add_subdispatch(d, c, prefix)

NextGraph == AddMethodGraph \/ AddSubdispatchGraph

SpecGraph == Init /\ [][NextGraph]_vars

----------------------------------------------------------------------------
(* Claims about cycles of attachments *)

\* the Dispatchers on a cycle of empty-prefix attachments through d
CycleOf(d) == {c \in Descendants(d, TRUE) : d \in Descendants(c, TRUE)}

\* name has no direct match on the Dispatchers in cyc
NoDirectOn(cyc, name) == \A c \in cyc : name \notin DOMAIN method_map[c]

\* the candidates of c for name other than the attachments of the cycle cyc:
\* those under a non-empty prefix, and the children that are not on the cycle
OffCycle(cyc, c, name) ==
    LET cs == Candidates(c, name)
    IN  {k \in 1..Len(cs) : cs[k].prefix # <<>> \/ cs[k].child \notin cyc}

\* C18 as stated: on a cycle of empty-prefix attachments, get_method of a name
\* without direct match on the cycle always recurses without bound.
C18_EmptyCycleAlwaysRecurses ==
    \A d \in Regs :
      LET cyc == CycleOf(d)
      IN  cyc # {} =>
            \A name \in Names :
              NoDirectOn(cyc, name) => GetMethod(d, name).kind = "RecursionError"

\* C18 amended: add_subdispatch never refuses an attachment, a Dispatcher's own
\* included; on a cycle of empty-prefix attachments, get_method of a name
\* without direct match on the cycle never fails with KeyError, and it recurses
\* without bound whenever every other candidate of the Dispatchers on the
\* cycle fails with KeyError.  (Otherwise a candidate tried before the cycle's
\* attachment may return its entry.)
C18_EmptyCycleNeverNotFound ==
    /\ ret.op # "add_subdispatch"
    /\ \A d \in Regs :
         LET cyc == CycleOf(d)
         IN  cyc # {} =>
               \A name \in Names :
                 NoDirectOn(cyc, name) =>
                   LET r == GetMethod(d, name)
                   IN  /\ r.kind # "KeyError"
                       /\ r.kind = "ok" =>
                             \E c \in cyc : \E k \in OffCycle(cyc, c, name) :
                                Resolves(Candidates(c, name)[k]).kind # "KeyError"

\* C18's case: two Dispatchers attached to each other under the empty prefix,
\* one of them with a child off the cycle that has methods; a name without
\* direct match on the cycle, which that child fails to resolve, recurses
\* without bound.
C18_Witness ==
    \E d \in Regs : \E name \in Names :
      LET cyc == CycleOf(d)
      IN  /\ Cardinality(cyc) = 2
          /\ NoDirectOn(cyc, name)
          /\ \E k \in OffCycle(cyc, d, name) :
                DOMAIN method_map[Candidates(d, name)[k].child] # {}
          /\ \A c \in cyc : \A k \in OffCycle(cyc, c, name) :
                Resolves(Candidates(c, name)[k]).kind = "KeyError"
          /\ GetMethod(d, name).kind = "RecursionError"

\* the attachments of Dispatcher c: the places <<d, i, j>> where it is a child
Attachments(c) ==
    {p \in Regs \X (1..TreeSize) \X (1..TreeSize) :
        /\ p[2] <= Len(subdispatchers[p[1]])
        /\ p[3] <= Len(subdispatchers[p[1]][p[2]].subs)
        /\ subdispatchers[p[1]][p[2]].subs[p[3]] = c}

\* C19: when every cycle of attachments has an attachment under a non-empty
\* prefix (no Dispatcher is on a cycle of empty-prefix attachments), get_method
\* ends for every Dispatcher and every name, with an entry or with KeyError:
\* on acyclic graphs, on cycles through non-empty prefixes, and with
\* Dispatchers attached several times.
C19_TerminatesWithoutEmptyCycle ==
    (\A d \in Regs : CycleOf(d) = {}) =>
      \A d \in Regs : \A name \in Names :
        GetMethod(d, name).kind \in {"ok", "KeyError"}

\* C19's case: no cycle of empty prefixes; a Dispatcher on a cycle resolves a
\* name once round the cycle to a method of its own under the shortened name,
\* a Dispatcher on a cycle fails to resolve a name it has candidates for, and
\* some Dispatcher is attached twice.
C19_Witness ==
    /\ \A d \in Regs : CycleOf(d) = {}
    /\ \E d \in Regs : \E name \in Names :
         /\ d \in Descendants(d, FALSE)
         /\ name \notin DOMAIN method_map[d]
         /\ GetMethod(d, name).kind = "ok"
         /\ GetMethod(d, name).owner = d
         /\ Len(GetMethod(d, name).key) < Len(name)
    /\ \E d \in Regs : \E name \in Names :
         /\ d \in Descendants(d, FALSE)
         /\ Candidates(d, name) # <<>>
         /\ GetMethod(d, name) = KeyError
    /\ \E c \in Regs : Cardinality(Attachments(c)) >= 2

----------------------------------------------------------------------------
(* Claims about registration during dispatch *)

\* C20: a dispatch resolves, binds and calls the handler in one step, on the
\* registry as it is when the dispatch starts: the entry it holds, and the
\* handler it called, are what get_method returned then.  While the dispatch is
\* suspended in the handler, no step (a registration least of all) changes its
\* entry or the call the handler observed; when the handler ends, the outcome
\* is that of the handler called at the start; and a call that is done never
\* changes again.
C20_InFlightKeepsHandler ==
    [][\A s \in Slots :
         LET c == calls[s]
             n == calls'[s]
         IN  /\ (c.pc = "idle" /\ n.pc # "idle" /\ ~IsBatch(n.request)) =>
                   LET r == GetMethod(n.on, n.request.method)
                   IN  /\ n.entry = IF r.kind = "ok" THEN r.entry ELSE NoEntry
                       /\ n.invoked # NotInvoked => n.invoked.f = r.entry.method
             /\ c.pc = "invoking" =>
                   /\ n.pc \in {"invoking", "done"}
                   /\ n.entry = c.entry
                   /\ n.invoked = c.invoked
                   /\ n.request = c.request
                   /\ n.pc = "invoking" => n = c
                   /\ n.pc = "done" =>
                         n.outcome = invoke_result(c.entry.method, n.ended)
             /\ c.pc = "done" => n = c
    ]_vars

\* C20's case: a dispatch is suspended in the handler of an entry found in a
\* subdispatcher, and a registration made since gives the name another entry.
C20_Witness ==
    \E s \in Slots :
      /\ calls[s].pc = "invoking"
      /\ GetMethod(calls[s].on, calls[s].request.method).kind = "ok"
      /\ GetMethod(calls[s].on, calls[s].request.method).entry # calls[s].entry
      /\ calls[s].invoked.f = calls[s].entry.method

====
